---- MODULE Spec2Model ----
(***************************************************************************)
(* Model of urlap's Form<T> (src/src/lib.rs): two reactive cells, `values` *)
(* (a T: FormStruct) and `errors` (HashMap<String, Option<String>>), the   *)
(* accessors derived from them, and the three operations that mutate them: *)
(* set_field_value, the handle_input closure and the handle_submit closure.*)
(* All handlers run to completion on the single UI thread, so each handler *)
(* invocation is one atomic action.                                        *)
(***************************************************************************)
EXTENDS Integers, Sequences, FiniteSets, TLC

(***************************************************************************)
(* Rust's Option<X>: None is the empty tuple, Some(x) the one-element      *)
(* tuple, so that Some("") and None are different values and an            *)
(* Option<Option<X>> nests.                                                *)
(***************************************************************************)
None == <<>>

Some(x) == <<x>>

Option(S) == {None} \cup {Some(x) : x \in S}

\* Option<String>::unwrap_or_default: the empty string for None.
unwrap_or_default(o) == IF o = None THEN "" ELSE o[1]

\* Option<Option<X>>::flatten.
flatten(o) == IF o = None THEN None ELSE o[1]

(***************************************************************************)
(* Bounds and the small input sets.                                        *)
(***************************************************************************)
\* The most error descriptors one validation pass reports for one field.
MaxErrs == 2

\* The fields of the application's record T.
RecFields == {"email", "username"}

\* The names an accessor may be asked for or an input element may carry:
\* the record's fields and one name the record does not have.
FieldNames == RecFields \cup {"phone"}

\* String values a field or an input element may hold.
Strs == {"", "alice"}

\* Human-readable messages a validation error descriptor may carry.
Msgs == {"invalid format"}

(***************************************************************************)
(* The FormStruct collaborator: a record with string-keyed get/set over    *)
(* the string representation of each field.  A field may be unset (an      *)
(* optional field), in which case get yields None.                         *)
(***************************************************************************)
FormValues == [RecFields -> Option(Strs)]

\* T::default(): no field filled in.
Default == [f \in RecFields |-> None]

get(vals, name) == IF name \in RecFields THEN vals[name] ELSE None

set(vals, name, val) ==
    IF name \in RecFields THEN [vals EXCEPT ![name] = Some(val)] ELSE vals

(***************************************************************************)
(* The Validate collaborator: validate() yields Ok(()) or                  *)
(* Err(ValidationErrors); field_errors() maps each offending field to its  *)
(* ordered, non-empty list of descriptors, each with an optional message.  *)
(* An Err may carry no field-level error at all (struct-level errors only).*)
(***************************************************************************)
ValidationError == [message : Option(Msgs)]

ErrLists == UNION {[1..k -> ValidationError] : k \in 1..MaxErrs}

FieldErrors == UNION {[S -> ErrLists] : S \in SUBSET RecFields}

Ok == [is_ok |-> TRUE, field_errors |-> <<>>]

Err(fe) == [is_ok |-> FALSE, field_errors |-> fe]

ValidationResults == {Ok} \cup {Err(fe) : fe \in FieldErrors}

(***************************************************************************)
(* The DOM collaborator: a change event has no target, or a target that is *)
(* an <input> (HtmlInputElement) or another element (here a <textarea>).   *)
(* event_target_value(ev) is the target's current value.                   *)
(***************************************************************************)
Events ==
    {[target |-> "none", name |-> "", value |-> ""]}
        \cup [target : {"input", "textarea"}, name : FieldNames, value : Strs]

event_target_value(ev) == ev.value

(***************************************************************************)
(* State.  values and errors are the two RwSignal cells of Form.  The rest *)
(* observes the last handler invocation: what it was (last), the cells     *)
(* before it (prevValues, prevErrors), the arguments the submit callback   *)
(* was invoked with during it (cbLog), the entries of the most recent      *)
(* validation attempt (attempt) and, per field, the entry of the most      *)
(* recent attempt that reported the field (produced).  verdict is what     *)
(* validate() answered for the current content of values, None while that  *)
(* content has not been validated: validate(&self) is a function of the    *)
(* record, so validating an unchanged record again gives the same answer.  *)
(***************************************************************************)
VARIABLES values, errors, last, prevValues, prevErrors, cbLog, attempt, produced,
          verdict

vars ==
    <<values, errors, last, prevValues, prevErrors, cbLog, attempt, produced, verdict>>

(***************************************************************************)
(* HashMap<String, Option<String>>: a function on the set of its keys.     *)
(***************************************************************************)
EmptyMap == <<>>

map_get(m, k) == IF k \in DOMAIN m THEN Some(m[k]) ELSE None

insert(m, k, v) == [x \in (DOMAIN m) \cup {k} |-> IF x = k THEN v ELSE m[x]]

(***************************************************************************)
(* Accessors (the Memo closures, evaluated on the current cells).          *)
(***************************************************************************)
value(field) == unwrap_or_default(get(values, field))

value_opt_defaulted(field) == Some(unwrap_or_default(get(values, field)))

value_opt(field) == get(values, field)

error(field) == flatten(map_get(errors, field))

(***************************************************************************)
(* set_field_value: values.update(|v| v.set(field, &value.unwrap_or_default())) *)
(***************************************************************************)
set_field_value_none_ignored(vals, field, val) ==
    IF val = None THEN vals ELSE set(vals, field, val[1])

set_field_value(vals, field, val) == set(vals, field, unwrap_or_default(val))

(***************************************************************************)
(* The handle_input closure: only an event whose target is an              *)
(* HtmlInputElement updates the record, at the element's name.             *)
(***************************************************************************)
handle_input_unchecked(vals, ev) ==
    IF ev.target = "none" THEN vals ELSE set(vals, ev.name, event_target_value(ev))

handle_input_all_fields(vals, ev) ==
    IF ev.target = "input"
    THEN [f \in RecFields |-> Some(event_target_value(ev))]
    ELSE vals

handle_input(vals, ev) ==
    IF ev.target = "none"
    THEN vals
    ELSE IF ev.target = "input"
         THEN set(vals, ev.name, event_target_value(ev))
         ELSE vals

(***************************************************************************)
(* The handle_submit closure.                                              *)
(***************************************************************************)
\* err.message.clone().map(|m| m.to_string()).unwrap_or_default()
message_string(err) == unwrap_or_default(err.message)

stored_message_optional(err) == err.message

\* What errors.update inserts for one descriptor: always a present message.
stored_message(err) == Some(message_string(err))

for_each_error_keep_first(e, field, f_errors) ==
    IF Len(f_errors) = 0
    THEN e
    ELSE insert(e, field, stored_message(Head(f_errors)))

\* f_errors.iter().for_each(|err| errors.update(|e| e.insert(field, Some(..))))
RECURSIVE for_each_error(_, _, _)
for_each_error(e, field, f_errors) ==
    IF Len(f_errors) = 0
    THEN e
    ELSE for_each_error(insert(e, field, stored_message(Head(f_errors))),
                        field, Tail(f_errors))

\* field_errors().iter().for_each(..): the HashMap's iteration order over the
\* fields is unspecified; the fields are distinct keys, so every order gives
\* the same map and one order is taken.
for_each_field_first_only(e, field_errors, todo) ==
    IF todo = {}
    THEN e
    ELSE LET field == CHOOSE f \in todo : TRUE
         IN  for_each_error(e, field, field_errors[field])

RECURSIVE for_each_field(_, _, _)
for_each_field(e, field_errors, todo) ==
    IF todo = {}
    THEN e
    ELSE LET field == CHOOSE f \in todo : TRUE
         IN  for_each_field(for_each_error(e, field, field_errors[field]),
                            field_errors, todo \ {field})

handle_submit_errors_cleared_on_success(e, res) ==
    IF res.is_ok
    THEN EmptyMap
    ELSE for_each_field(e, res.field_errors, DOMAIN res.field_errors)

handle_submit_errors_replaced(e, res) ==
    IF res.is_ok
    THEN e
    ELSE for_each_field(EmptyMap, res.field_errors, DOMAIN res.field_errors)

\* The error map after the closure ran with validation result res.
handle_submit_errors(e, res) ==
    IF res.is_ok
    THEN e
    ELSE for_each_field(e, res.field_errors, DOMAIN res.field_errors)

handle_submit_cb_no_return(vals, res) == <<vals>>

\* The arguments cb is invoked with while the closure runs: the early return
\* on Err skips cb(values.get()).
handle_submit_cb(vals, res) == IF res.is_ok THEN <<vals>> ELSE <<>>

(***************************************************************************)
(* What one validation attempt produces for the error map: per reported    *)
(* field, the message of the last descriptor in the field's list.          *)
(***************************************************************************)
Last(s) == s[Len(s)]

entries(res) ==
    [f \in DOMAIN res.field_errors |-> Some(message_string(Last(res.field_errors[f])))]

override(m, n) == [x \in (DOMAIN m) \cup (DOMAIN n) |-> IF x \in DOMAIN n THEN n[x] ELSE m[x]]

(***************************************************************************)
(* Construction and the actions.                                           *)
(***************************************************************************)
Constructed(v) ==
    /\ values = v
    /\ errors = EmptyMap
    /\ prevValues = v
    /\ prevErrors = EmptyMap
    /\ cbLog = <<>>
    /\ attempt = [made |-> FALSE, entries |-> EmptyMap]
    /\ produced = EmptyMap
    /\ verdict = None

new ==
    /\ Constructed(Default)
    /\ last = [op |-> "new"]

with_initial_values(v) ==
    /\ Constructed(v)
    /\ last = [op |-> "with_initial_values"]

Init == new \/ \E v \in FormValues : with_initial_values(v)

\* The answer of validate() stays known only while the record is unchanged.
verdict_after(old, vals) == IF vals = old THEN verdict ELSE None

SetFieldValue(field, val) ==
    /\ values' = set_field_value(values, field, val)
    /\ verdict' = verdict_after(values, values')
    /\ UNCHANGED <<errors, attempt, produced>>
    /\ last' = [op |-> "set_field_value", field |-> field, val |-> val]
    /\ prevValues' = values
    /\ prevErrors' = errors
    /\ cbLog' = <<>>

HandleInput(ev) ==
    /\ values' = handle_input(values, ev)
    /\ verdict' = verdict_after(values, values')
    /\ UNCHANGED <<errors, attempt, produced>>
    /\ last' = [op |-> "handle_input", ev |-> ev]
    /\ prevValues' = values
    /\ prevErrors' = errors
    /\ cbLog' = <<>>

\* ev.prevent_default() acts on the event only; res is what
\* values.get().validate() returns.
HandleSubmit(res) ==
    /\ verdict \in {None, Some(res)}
    /\ verdict' = Some(res)
    /\ errors' = handle_submit_errors(errors, res)
    /\ cbLog' = handle_submit_cb(values, res)
    /\ UNCHANGED values
    /\ last' = [op |-> "handle_submit", res |-> res]
    /\ prevValues' = values
    /\ prevErrors' = errors
    /\ attempt' = [made |-> TRUE, entries |-> entries(res)]
    /\ produced' = override(produced, entries(res))

Next ==
    \/ \E field \in FieldNames, val \in Option(Strs) : SetFieldValue(field, val)
    \/ \E ev \in Events : HandleInput(ev)
    \/ \E res \in ValidationResults : HandleSubmit(res)

Spec == Init /\ [][Next]_vars

TypeOK ==
    /\ values \in FormValues
    /\ DOMAIN errors \subseteq RecFields
    /\ \A f \in DOMAIN errors : errors[f] \in Option(Strs \cup Msgs)

(***************************************************************************)
(* Properties.                                                             *)
(***************************************************************************)
FailedSubmit == last.op = "handle_submit" /\ ~last.res.is_ok

PassedSubmit == last.op = "handle_submit" /\ last.res.is_ok

InputEvent == last.op = "handle_input"

\* The messages, as stored strings, of the descriptors in one field's list.
Messages(f_errors) == {message_string(f_errors[i]) : i \in 1..Len(f_errors)}

\* C1: after the submit handler ran on values that fail validation, the
\* callback was not invoked during that invocation, and for every field the
\* validation reported an error for, error(field) yields the message of an
\* error reported for it (of the only one, when there is one).
C1_FailedSubmitRecordsErrors ==
    FailedSubmit =>
        /\ cbLog = <<>>
        /\ \A f \in DOMAIN last.res.field_errors :
               /\ error(f) # None
               /\ error(f)[1] \in Messages(last.res.field_errors[f])

C1_Witness ==
    /\ FailedSubmit
    /\ last.res.field_errors = ("email" :> <<[message |-> Some("invalid format")]>>)
    /\ cbLog = <<>>
    /\ error("email") = Some("invalid format")

\* C2: after the submit handler ran on values that pass validation, the
\* callback was invoked exactly once, with the content of the values cell at
\* that moment, and the error map is the one from before the invocation.
C2_PassedSubmitCallsBackOnce ==
    PassedSubmit =>
        /\ Len(cbLog) = 1
        /\ cbLog[1] = prevValues
        /\ values = prevValues
        /\ errors = prevErrors

C2_Witness ==
    /\ PassedSubmit
    /\ cbLog = <<values>>
    /\ errors # EmptyMap
    /\ errors = prevErrors

\* C3 (as stated): every entry of the error map was produced by the most
\* recent validation attempt triggered by a submit.
C3_OnlyMostRecentAttempt ==
    \A f \in DOMAIN errors :
        /\ attempt.made
        /\ f \in DOMAIN attempt.entries
        /\ errors[f] = attempt.entries[f]

\* C3 (amended): the error map holds exactly one entry for each field some
\* validation attempt reported, and that entry is the one produced by the
\* most recent attempt that reported the field; entries of earlier attempts
\* stay until a later attempt reports the same field.
C3_MostRecentReportingAttempt ==
    /\ DOMAIN errors = DOMAIN produced
    /\ \A f \in DOMAIN errors : errors[f] = produced[f]

C3_Witness ==
    /\ attempt.made
    /\ \E f \in DOMAIN errors : f \notin DOMAIN attempt.entries
    /\ \E g \in DOMAIN errors : g \in DOMAIN attempt.entries

\* C4: after the input handler ran on a change event whose target is an
\* input element with name n and value v, value(n) is v when n is a field of
\* the record, and every other field is what it was before the event.
C4_InputUpdatesNamedField ==
    (InputEvent /\ last.ev.target = "input") =>
        /\ last.ev.name \in RecFields => value(last.ev.name) = last.ev.value
        /\ \A f \in FieldNames \ {last.ev.name} :
               get(values, f) = get(prevValues, f)

C4_Witness ==
    /\ InputEvent
    /\ last.ev = [target |-> "input", name |-> "username", value |-> "alice"]
    /\ get(prevValues, "username") # Some("alice")
    /\ get(prevValues, "email") = Some("")
    /\ value("username") = "alice"

\* C5: after set_field_value(x, Some(s)) on a field x of the record value(x)
\* is s, and after set_field_value(x, None) value(x) is the empty string,
\* stored as a present empty string, whatever x held before.
C5_SetFieldValue ==
    (last.op = "set_field_value" /\ last.field \in RecFields) =>
        /\ last.val # None => value(last.field) = last.val[1]
        /\ last.val = None =>
               /\ value(last.field) = ""
               /\ value_opt(last.field) = Some("")

C5_Witness ==
    /\ last.op = "set_field_value"
    /\ last.field = "username"
    /\ last.val = None
    /\ get(prevValues, "username") = Some("alice")
    /\ value("username") = ""

\* C6: for every field name the record does not hold (an unknown name or an
\* unset field) value yields the empty string and value_opt yields None,
\* while a field holding the empty string yields Some("") from value_opt.
C6_AbsentField ==
    \A f \in FieldNames :
        /\ (f \notin RecFields \/ values[f] = None) =>
               /\ value(f) = ""
               /\ value_opt(f) = None
        /\ (f \in RecFields /\ values[f] = Some("")) =>
               /\ value(f) = ""
               /\ value_opt(f) = Some("")
               /\ value_opt(f) # None

C6_Witness ==
    /\ last.op = "set_field_value"
    /\ values["email"] = None
    /\ values["username"] = Some("")
    /\ value("phone") = ""
    /\ value_opt("email") = None

\* C7: when one validation pass reports two or more errors for a field, the
\* message stored for the field after the submit is that of the last error
\* in the list's order; the earlier ones are overwritten.
C7_LastMessageWins ==
    FailedSubmit =>
        \A f \in DOMAIN last.res.field_errors :
            Len(last.res.field_errors[f]) >= 2 =>
                map_get(errors, f) =
                    Some(Some(message_string(
                        last.res.field_errors[f][Len(last.res.field_errors[f])])))

C7_Witness ==
    /\ FailedSubmit
    /\ "email" \in DOMAIN last.res.field_errors
    /\ last.res.field_errors["email"] =
           <<[message |-> Some("invalid format")], [message |-> None]>>
    /\ error("email") = Some("")

\* C8: no key is ever removed from the error map: the keys before a handler
\* ran are keys after it, and every field a failed submit ever reported is
\* listed, also after a later submit succeeded.
C8_KeysNeverRemoved ==
    /\ DOMAIN prevErrors \subseteq DOMAIN errors
    /\ DOMAIN produced \subseteq DOMAIN errors

C8_Witness ==
    /\ PassedSubmit
    /\ attempt.entries = EmptyMap
    /\ "email" \in DOMAIN errors
    /\ value("email") = "alice"

\* C9: the input handler ignores an event that has no target or whose target
\* is not an input element: values and error map are what they were before.
C9_NonInputIgnored ==
    (InputEvent /\ last.ev.target # "input") =>
        /\ values = prevValues
        /\ errors = prevErrors

C9_Witness ==
    /\ InputEvent
    /\ last.ev = [target |-> "textarea", name |-> "username", value |-> "alice"]
    /\ value("username") = ""
    /\ errors # EmptyMap

\* C10: an error whose descriptor carries no message is stored as a present
\* empty string, so error(f) is Some("") for it; every entry of the error map
\* is a present message, and error(f) is None exactly for the fields no
\* failed submit has ever reported.
C10_MissingMessageStoredEmpty ==
    /\ \A f \in DOMAIN errors : errors[f] # None
    /\ \A f \in FieldNames : error(f) = None <=> f \notin DOMAIN produced
    /\ FailedSubmit =>
           \A f \in DOMAIN last.res.field_errors :
               Last(last.res.field_errors[f]).message = None => error(f) = Some("")

C10_Witness ==
    /\ FailedSubmit
    /\ last.res.field_errors = ("email" :> <<[message |-> None]>>)
    /\ error("email") = Some("")
    /\ error("username") = None

====
